---- MODULE Spec2Model ----
(***************************************************************************)
(* nfx-stringutils: the Splitter and its Iterator (Splitter.h/.inl) and    *)
(* the network validators of Utils.inl, as a state machine.                *)
(*                                                                         *)
(* A string_view is a sequence of one-character strings; positions are     *)
(* 0-based as in the source, so the byte at position i of s is s[i + 1].   *)
(***************************************************************************)
EXTENDS Integers, Sequences, FiniteSets, TLC

(***************************************************************************)
(* Bounds of the model.                                                    *)
(***************************************************************************)
\* longest input handed to a Splitter
MaxLen == 4
\* number of cursors (threads) iterating the one Splitter
NumCursors == 2

Cursors == 1..NumCursors
\* bytes of the Splitter inputs, and the delimiters tried (";" never occurs)
SplitAlphabet == {",", "a"}
Delims == {",", ";"}
\* a loop that yields more segments than any input can have is cut here
MaxYield == MaxLen + 2

Strings(A, n) == UNION {[1..k -> A] : k \in 0..n}

\* most dot-separated groups in an input of isIPv4Address
MaxV4Groups == 5
\* most colon-separated groups in an input of isIPv6Address made of "" and "1"
MaxV6Groups == 9
\* most colon-separated groups in an input of isIPv6Address made of V6RichTokens
MaxV6RichGroups == 3

\* the segments with byte d put back between consecutive ones
RECURSIVE Join(_, _)
Join(segs, d) ==
    IF Len(segs) = 0 THEN <<>>
    ELSE IF Len(segs) = 1 THEN segs[1]
    ELSE segs[1] \o <<d>> \o Join(Tail(segs), d)

\* every way to write 1..n groups taken from `tokens`, separated by `sep`
Grouped(tokens, sep, n) ==
    {Join(t, sep) : t \in UNION {[1..k -> tokens] : k \in 1..n}}

V4Tokens ==
    {<<>>, <<"0">>, <<"0", "0">>, <<"0", "1">>, <<"2", "5", "5">>,
     <<"2", "5", "6">>, <<"x">>}
V4Inputs == Grouped(V4Tokens, ".", MaxV4Groups)

V6WideTokens == {<<>>, <<"1">>}
V6RichTokens ==
    {<<>>, <<"1">>, <<"a", "B", "c", "d">>, <<"a", "b", "c", "d", "e">>, <<"g">>}
V6Inputs ==
    Grouped(V6WideTokens, ":", MaxV6Groups)
        \cup Grouped(V6RichTokens, ":", MaxV6RichGroups)

Zones == {<<>>, <<"e", "t", "h", "0">>, <<"e", ".", "0">>}

\* most colon-terminated groups before an embedded IPv4 tail
MaxPrefixGroups == 7
\* most dot-separated groups in an embedded IPv4 tail
MaxTailGroups == 4

\* nothing, or groups of "" and "1" each followed by a ':'
TailPrefixes ==
    {<<>>} \cup {g \o <<":">> : g \in Grouped(V6WideTokens, ":", MaxPrefixGroups)}
TailTokens == {<<>>, <<"1">>, <<"2", "5", "6">>}
TailInputs ==
    {p \o v : p \in TailPrefixes, v \in Grouped(TailTokens, ".", MaxTailGroups)}

\* most labels in a hostname made of HostTokens
MaxHostLabels == 3
\* most labels in a hostname made of LongLabels
MaxLongLabels == 4

\* a label of n letters
LabelOf(n) == [i \in 1..n |-> "a"]

HostTokens ==
    {<<>>, <<"a">>, <<"-">>, <<"a", "-">>, <<"-", "a">>, <<"a", "-", "a">>,
     <<"_">>, <<"Z", "9">>}
\* labels around the 63-character limit; four of them reach 253 and 254
LongLabels == {LabelOf(61), LabelOf(62), LabelOf(63), LabelOf(64)}
HostInputs ==
    Grouped(HostTokens, ".", MaxHostLabels)
        \cup Grouped(LongLabels, ".", MaxLongLabels)

\* longest string handed to the string isValidPort
MaxPortLen == 6
\* the integers handed to the integral isValidPort go up to MaxWraps * 65536
MaxWraps == 3

\* digits enough to write 65535 and 65536, and a sign
PortAlphabet == {"0", "3", "5", "6", "-"}
PortInputs == Strings(PortAlphabet, MaxPortLen)

\* the integral types the overload is instantiated with, and the values of
\* each that fit the integers of the model
IntegralTypes == {"uint16_t", "int", "uint32_t", "uint64_t"}
TypeMin(T) == IF T = "int" THEN -2147483647 ELSE 0
TypeMax(T) == IF T = "uint16_t" THEN 65535 ELSE 2147483647

PortRemainders == {0, 80, 4464, 65535}
PortNumbers ==
    {[type |-> T, value |-> k * 65536 + r] :
        T \in IntegralTypes, k \in (-1)..MaxWraps, r \in PortRemainders}
\* a value of type T
Typed(n) == n.value >= TypeMin(n.type) /\ n.value <= TypeMax(n.type)

\* most labels in the host of a plain endpoint
MaxEpLabels == 4
\* most colon-separated groups in the host of a bracketed endpoint
MaxEp6Groups == 8

EpHostTokens == {<<>>, <<"a">>, <<"-", "a">>, <<"1">>, <<"2", "5", "6">>}
EpHosts == Grouped(EpHostTokens, ".", MaxEpLabels)
EpZones == {<<>>, <<"%", "e">>, <<"%", "]">>}
Ep6Hosts == {g \o z : g \in Grouped(V6WideTokens, ":", MaxEp6Groups), z \in EpZones}
EpPorts ==
    {<<>>, <<"0">>, <<"8", "0">>, <<"6", "5", "5", "3", "5">>,
     <<"6", "5", "5", "3", "6">>, <<"8", "x">>, <<"0", "0", "0", "8", "0">>,
     <<"1", "2", "3", "4", "5", "6">>}
\* what follows the host: nothing, ":port", or a port without its ':'
EpRests == {<<>>, <<"8", "0">>} \cup {<<":">> \o p : p \in EpPorts}
\* most colon-separated groups in the host of an unbracketed IPv6 endpoint
MaxManyColons == 5

\* an unbracketed IPv6 host with what follows it, and host:port:port
ManyColonInputs ==
    {g \o z \o r : g \in Grouped(V6WideTokens, ":", MaxManyColons),
                   z \in EpZones, r \in EpRests}
        \cup {h \o <<":">> \o p \o <<":">> \o q :
                 h \in EpHostTokens, p \in EpPorts, q \in EpPorts}
\* host:port and host, [host]rest and the same without the ']'
EndpointInputs ==
    {h \o r : h \in EpHosts, r \in {<<>>} \cup {<<":">> \o p : p \in EpPorts}}
        \cup {<<"[">> \o a \o b \o r :
                 a \in Ep6Hosts, b \in {<<>>, <<"]">>}, r \in EpRests}
        \cup ManyColonInputs

\* longest of the short strings handed to every validator
MaxAccessLen == 4

AccessAlphabet == {"[", "]", ":", ".", "-", "%", "1"}
\* strings longer than each validator's limit: 5, 15, 45 and 253 bytes
OversizedInputs ==
    {[i \in 1..n |-> c] : n \in {6, 16, 46, 254}, c \in {"1", "."}}
AccessInputs == Strings(AccessAlphabet, MaxAccessLen) \cup OversizedInputs

\* most dot-separated groups in a string handed to both address validators
MaxBothGroups == 4

BothTokens == {<<>>, <<"1">>, <<"2", "5", "5">>, <<"2", "5", "6">>}
\* dotted strings, alone and as the tail of "::" and of "1:", and the inputs
\* of isIPv6Address
BothInputs ==
    {p \o v : p \in {<<>>, <<":", ":">>, <<"1", ":">>},
              v \in Grouped(BothTokens, ".", MaxBothGroups)}
        \cup V6Inputs

VARIABLES
    m_str,        \* Splitter::m_str
    m_delimiter,  \* Splitter::m_delimiter
    cur,          \* cur[c]: the Iterator held by client c
    pc,           \* pc[c]: where client c stands in its loop over the Splitter
    out,          \* out[c]: the segments client c has read since its begin()
    incs,         \* incs[c]: increments client c has made inside its loop
    str,          \* the string handed to the validators
    zone,         \* the zone ID a caller appends to str after a '%'
    num,          \* the integer handed to the integral isValidPort
    host,         \* the caller's string_view passed as tryParseEndpoint's host
    port,         \* the caller's uint16_t passed as tryParseEndpoint's port
    done          \* the validator calls made so far: [fn, arg, val]

splitVars == <<m_str, m_delimiter, cur, pc, out, incs>>
netVars == <<str, zone, num, host, port, done>>
vars ==
    <<m_str, m_delimiter, cur, pc, out, incs, str, zone, num, host, port, done>>

(***************************************************************************)
(* std::string_view primitives                                             *)
(***************************************************************************)
\* std::string_view::npos, SIZE_MAX: larger than every length, only compared
npos == 2147483647

Min(a, b) == IF a < b THEN a ELSE b

\* s.find(ch, pos)
Find(s, ch, pos) ==
    IF \E i \in pos..(Len(s) - 1) : s[i + 1] = ch
    THEN CHOOSE i \in pos..(Len(s) - 1) :
             /\ s[i + 1] = ch
             /\ \A j \in pos..(i - 1) : s[j + 1] # ch
    ELSE npos

\* what substr(pos, n) gives when pos > size(): std::out_of_range
OutOfRange == <<"std::out_of_range">>

\* s.substr(pos, n)
Substr(s, pos, n) ==
    IF pos > Len(s) THEN OutOfRange
    ELSE SubSeq(s, pos + 1, pos + Min(n, Len(s) - pos))

\* a - b in size_t: a negative difference wraps to a value above every length
SizeSub(a, b) == IF a >= b THEN a - b ELSE npos

(***************************************************************************)
(* Splitter::Iterator                                                      *)
(***************************************************************************)
\* Iterator() = default
DefaultIterator == [m_start |-> 0, m_end |-> 0, m_isAtEnd |-> TRUE]

\* the constructor without its `|| splitter.m_str.empty()`
IteratorCtorNoEmptyCheck(at_end) ==
    LET found == Find(m_str, m_delimiter, 0)
    IN  IF at_end
        THEN [m_start |-> 0, m_end |-> 0, m_isAtEnd |-> TRUE]
        ELSE [m_start |-> 0,
              m_end |-> IF found = npos THEN Len(m_str) ELSE found,
              m_isAtEnd |-> FALSE]

\* the constructor searching for the first delimiter from position 1 on
IteratorCtorSkipFirst(at_end) ==
    LET isAtEnd == at_end \/ Len(m_str) = 0
        found   == Find(m_str, m_delimiter, 1)
    IN  IF isAtEnd
        THEN [m_start |-> 0, m_end |-> 0, m_isAtEnd |-> TRUE]
        ELSE [m_start |-> 0,
              m_end |-> IF found = npos THEN Len(m_str) ELSE found,
              m_isAtEnd |-> FALSE]

\* Iterator( const Splitter&, bool at_end )
IteratorCtor(at_end) ==
    LET isAtEnd == at_end \/ Len(m_str) = 0
        found   == Find(m_str, m_delimiter, 0)
    IN  IF isAtEnd
        THEN [m_start |-> 0, m_end |-> 0, m_isAtEnd |-> TRUE]
        ELSE [m_start |-> 0,
              m_end |-> IF found = npos THEN Len(m_str) ELSE found,
              m_isAtEnd |-> FALSE]

\* Splitter::begin()
SplitterBegin == IteratorCtor(FALSE)

\* Splitter::end()
SplitterEnd == IteratorCtor(TRUE)

\* operator* with a length one too long: the segment takes its delimiter along
OpDerefWithDelimiter(it) ==
    Substr(m_str, it.m_start, SizeSub(it.m_end, it.m_start) + 1)

\* Iterator::operator*()
OpDeref(it) == Substr(m_str, it.m_start, SizeSub(it.m_end, it.m_start))

\* operator++ with `m_start >= str_len` as its exhaustion test
OpIncEarlyEnd(it) ==
    LET start   == it.m_end + 1
        str_len == Len(m_str)
        found   == Find(m_str, m_delimiter, start)
    IN  IF start >= str_len
        THEN [it EXCEPT !.m_start = start, !.m_isAtEnd = TRUE]
        ELSE [it EXCEPT !.m_start = start,
                        !.m_end = IF found = npos THEN str_len ELSE found]

\* operator++ with `m_start = m_end`: the cursor never steps over the delimiter
OpIncNoAdvance(it) ==
    LET start   == it.m_end
        str_len == Len(m_str)
        found   == Find(m_str, m_delimiter, start)
    IN  IF start > str_len
        THEN [it EXCEPT !.m_start = start, !.m_isAtEnd = TRUE]
        ELSE [it EXCEPT !.m_start = start,
                        !.m_end = IF found = npos THEN str_len ELSE found]

\* operator++ setting m_isAtEnd both ways from its test of m_start
OpIncRevives(it) ==
    LET start   == it.m_end + 1
        str_len == Len(m_str)
        found   == Find(m_str, m_delimiter, start)
    IN  IF start > str_len
        THEN [it EXCEPT !.m_start = start, !.m_isAtEnd = TRUE]
        ELSE [it EXCEPT !.m_start = start,
                        !.m_end = IF found = npos THEN str_len ELSE found,
                        !.m_isAtEnd = FALSE]

\* Iterator::operator++()
OpInc(it) ==
    LET start   == it.m_end + 1
        str_len == Len(m_str)
        found   == Find(m_str, m_delimiter, start)
    IN  IF start > str_len
        THEN [it EXCEPT !.m_start = start, !.m_isAtEnd = TRUE]
        ELSE [it EXCEPT !.m_start = start,
                        !.m_end = IF found = npos THEN str_len ELSE found]

\* Iterator::operator==
OpEq(a, b) == a.m_isAtEnd = b.m_isAtEnd

\* Iterator::operator!=
OpNe(a, b) == ~OpEq(a, b)

(***************************************************************************)
(* Character classification and IP address validation (Utils.inl)          *)
(***************************************************************************)
DecimalDigits == <<"0", "1", "2", "3", "4", "5", "6", "7", "8", "9">>

\* isDigit( char )
isDigit(c) == \E v \in 1..10 : DecimalDigits[v] = c

\* c - '0' for a digit c
DigitVal(c) == (CHOOSE v \in 1..10 : DecimalDigits[v] = c) - 1

\* the hex test of isIPv6Address: 0-9, a-f, A-F
isHexDigit(c) ==
    \/ isDigit(c)
    \/ c \in {"a", "b", "c", "d", "e", "f"}
    \/ c \in {"A", "B", "C", "D", "E", "F"}

\* the loop of isIPv4Address without its leading-zero test
RECURSIVE V4ScanLeadingZeros(_, _, _, _, _)
V4ScanLeadingZeros(s, i, octetCount, currentOctet, digitCount) ==
    IF i >= Len(s)
    THEN octetCount = 3 /\ digitCount > 0 /\ currentOctet <= 255
    ELSE LET c == s[i + 1]
             v == currentOctet * 10 + DigitVal(c)
         IN  IF c = "."
             THEN IF digitCount = 0 \/ currentOctet > 255
                  THEN FALSE
                  ELSE V4ScanLeadingZeros(s, i + 1, octetCount + 1, 0, 0)
             ELSE IF isDigit(c)
             THEN IF digitCount + 1 > 3 \/ v > 255
                  THEN FALSE
                  ELSE V4ScanLeadingZeros(s, i + 1, octetCount, v, digitCount + 1)
             ELSE FALSE

\* the loop of isIPv4Address from position i on, and its final test
RECURSIVE V4Scan(_, _, _, _, _)
V4Scan(s, i, octetCount, currentOctet, digitCount) ==
    IF i >= Len(s)
    THEN octetCount = 3 /\ digitCount > 0 /\ currentOctet <= 255
    ELSE LET c == s[i + 1]
             v == currentOctet * 10 + DigitVal(c)
         IN  IF c = "."
             THEN IF digitCount = 0 \/ currentOctet > 255
                  THEN FALSE
                  ELSE V4Scan(s, i + 1, octetCount + 1, 0, 0)
             ELSE IF isDigit(c)
             THEN IF digitCount = 1 /\ currentOctet = 0
                  THEN FALSE
                  ELSE IF digitCount + 1 > 3 \/ v > 255
                  THEN FALSE
                  ELSE V4Scan(s, i + 1, octetCount, v, digitCount + 1)
             ELSE FALSE

\* isIPv4Address( std::string_view )
isIPv4Address(s) ==
    IF Len(s) = 0 \/ Len(s) > 15 THEN FALSE ELSE V4Scan(s, 0, 0, 0, 0)

\* the loop of isIPv6Address returned false
V6Rejected ==
    [rejected |-> TRUE, groupCount |-> 0, digitCount |-> 0, hasDoubleColon |-> FALSE]

\* the loop of isIPv6Address ended, by running out of input or by a break
V6LoopEnd(groupCount, digitCount, hasDoubleColon) ==
    [rejected |-> FALSE, groupCount |-> groupCount, digitCount |-> digitCount,
     hasDoubleColon |-> hasDoubleColon]

\* the loop of isIPv6Address letting a second "::" pass
RECURSIVE V6ScanManyDoubleColons(_, _, _, _, _, _, _)
V6ScanManyDoubleColons(s, i, groupCount, digitCount, hasDoubleColon, prevWasColon, groupStartPos) ==
    IF i >= Len(s)
    THEN V6LoopEnd(groupCount, digitCount, hasDoubleColon)
    ELSE LET c == s[i + 1] IN
         IF c = ":"
         THEN V6ScanManyDoubleColons(s, i + 1,
                          IF ~prevWasColon /\ digitCount > 0
                          THEN groupCount + 1 ELSE groupCount,
                          0, hasDoubleColon \/ prevWasColon, TRUE, i + 1)
         ELSE IF isHexDigit(c)
         THEN IF digitCount + 1 > 4
              THEN V6Rejected
              ELSE V6ScanManyDoubleColons(s, i + 1, groupCount, digitCount + 1,
                                          hasDoubleColon, FALSE, groupStartPos)
         ELSE IF c = "."
         THEN LET ipv4Part   == Substr(s, groupStartPos, npos)
                  percentPos == Find(ipv4Part, "%", 0)
                  ipv4Only   == IF percentPos # npos
                                THEN Substr(ipv4Part, 0, percentPos)
                                ELSE ipv4Part
              IN  IF ~isIPv4Address(ipv4Only)
                  THEN V6Rejected
                  ELSE V6LoopEnd(groupCount + 2, digitCount, hasDoubleColon)
         ELSE IF c = "%"
         THEN V6LoopEnd(IF digitCount > 0 THEN groupCount + 1 ELSE groupCount,
                        digitCount, hasDoubleColon)
         ELSE V6Rejected

\* the loop of isIPv6Address from position i on
RECURSIVE V6Scan(_, _, _, _, _, _, _)
V6Scan(s, i, groupCount, digitCount, hasDoubleColon, prevWasColon, groupStartPos) ==
    IF i >= Len(s)
    THEN V6LoopEnd(groupCount, digitCount, hasDoubleColon)
    ELSE LET c == s[i + 1] IN
         IF c = ":"
         THEN IF prevWasColon /\ hasDoubleColon
              THEN V6Rejected
              ELSE V6Scan(s, i + 1,
                          IF ~prevWasColon /\ digitCount > 0
                          THEN groupCount + 1 ELSE groupCount,
                          0, hasDoubleColon \/ prevWasColon, TRUE, i + 1)
         ELSE IF isHexDigit(c)
         THEN IF digitCount + 1 > 4
              THEN V6Rejected
              ELSE V6Scan(s, i + 1, groupCount, digitCount + 1, hasDoubleColon,
                          FALSE, groupStartPos)
         ELSE IF c = "."
         THEN LET ipv4Part   == Substr(s, groupStartPos, npos)
                  percentPos == Find(ipv4Part, "%", 0)
                  ipv4Only   == IF percentPos # npos
                                THEN Substr(ipv4Part, 0, percentPos)
                                ELSE ipv4Part
              IN  IF ~isIPv4Address(ipv4Only)
                  THEN V6Rejected
                  ELSE V6LoopEnd(groupCount + 2, digitCount, hasDoubleColon)
         ELSE IF c = "%"
         THEN V6LoopEnd(IF digitCount > 0 THEN groupCount + 1 ELSE groupCount,
                        digitCount, hasDoubleColon)
         ELSE V6Rejected

LowerCase ==
    {"a", "b", "c", "d", "e", "f", "g", "h", "i", "j", "k", "l", "m",
     "n", "o", "p", "q", "r", "s", "t", "u", "v", "w", "x", "y", "z"}
UpperCase ==
    {"A", "B", "C", "D", "E", "F", "G", "H", "I", "J", "K", "L", "M",
     "N", "O", "P", "Q", "R", "S", "T", "U", "V", "W", "X", "Y", "Z"}

\* ( c >= 'a' && c <= 'z' ) || ( c >= 'A' && c <= 'Z' )
isAlpha(c) == c \in LowerCase \/ c \in UpperCase

isAlphaNumeric(c) == isAlpha(c) \/ isDigit(c)

LowerLetters ==
    <<"a", "b", "c", "d", "e", "f", "g", "h", "i", "j", "k", "l", "m",
      "n", "o", "p", "q", "r", "s", "t", "u", "v", "w", "x", "y", "z">>
UpperLetters ==
    <<"A", "B", "C", "D", "E", "F", "G", "H", "I", "J", "K", "L", "M",
      "N", "O", "P", "Q", "R", "S", "T", "U", "V", "W", "X", "Y", "Z">>

\* toLower leaving every character as it is
toLowerKeepsCase(c) == c

\* toLower( char ): ( c >= 'A' && c <= 'Z' ) ? c + ( 'a' - 'A' ) : c
toLower(c) ==
    IF c \in UpperCase
    THEN LowerLetters[CHOOSE i \in 1..26 : UpperLetters[i] = c]
    ELSE c

\* toUpper( char ): ( c >= 'a' && c <= 'z' ) ? c - ( 'a' - 'A' ) : c
toUpper(c) ==
    IF c \in LowerCase
    THEN UpperLetters[CHOOSE i \in 1..26 : LowerLetters[i] = c]
    ELSE c

\* what tryParseBool hands back: its return value and the bool behind `result`
Parsed(val, result) == [val |-> val, result |-> result]

\* tryParseBool( str, result ), `result` holding `prior` at the call
tryParseBool(s, prior) ==
    LET l(i) == toLower(s[i + 1])
    IN  IF Len(s) = 0 THEN Parsed(FALSE, FALSE)
        ELSE IF Len(s) = 1
        THEN IF l(0) = "1" \/ l(0) = "t" \/ l(0) = "y" THEN Parsed(TRUE, TRUE)
             ELSE IF l(0) = "0" \/ l(0) = "f" \/ l(0) = "n"
             THEN Parsed(TRUE, FALSE)
             ELSE Parsed(FALSE, prior)
        ELSE IF Len(s) = 2 /\ l(0) = "o" /\ l(1) = "n" THEN Parsed(TRUE, TRUE)
        ELSE IF Len(s) = 2 /\ l(0) = "n" /\ l(1) = "o" THEN Parsed(TRUE, FALSE)
        ELSE IF Len(s) = 3 /\ l(0) = "y" /\ l(1) = "e" /\ l(2) = "s"
        THEN Parsed(TRUE, TRUE)
        ELSE IF Len(s) = 3 /\ l(0) = "o" /\ l(1) = "f" /\ l(2) = "f"
        THEN Parsed(TRUE, FALSE)
        ELSE IF Len(s) = 4 /\ l(0) = "t" /\ l(1) = "r" /\ l(2) = "u" /\ l(3) = "e"
        THEN Parsed(TRUE, TRUE)
        ELSE IF /\ Len(s) = 5 /\ l(0) = "f" /\ l(1) = "a" /\ l(2) = "l"
                /\ l(3) = "s" /\ l(4) = "e"
        THEN Parsed(TRUE, FALSE)
        ELSE Parsed(FALSE, FALSE)

\* the texts tryParseBool is tested with
BoolWords ==
    {<<"1">>, <<"t">>, <<"y">>, <<"o", "n">>, <<"y", "e", "s">>,
     <<"t", "r", "u", "e">>,
     <<"0">>, <<"f">>, <<"n">>, <<"n", "o">>, <<"o", "f", "f">>,
     <<"f", "a", "l", "s", "e">>}

\* w in every mix of upper and lower case
CaseVariants(w) ==
    {[i \in 1..Len(w) |-> IF i \in S THEN toUpper(w[i]) ELSE w[i]] :
        S \in SUBSET (1..Len(w))}

\* longest string of the exhaustive part of the inputs of tryParseBool
MaxBoolLen == 2

BoolAlphabet ==
    {"t", "y", "o", "n", "f", "e", "s", "T", "Y", "N", "0", "1", "2", "x", " "}
BoolStains == {"x", "2", " ", "e", "E"}

\* every short string over BoolAlphabet; the words in every case, alone and
\* with a character before or after; the words with one character replaced
BoolInputs ==
    LET words == UNION {CaseVariants(w) : w \in BoolWords}
    IN  UNION {[1..n -> BoolAlphabet] : n \in 0..MaxBoolLen}
        \cup words
        \cup {<<c>> \o w : c \in BoolStains, w \in words}
        \cup {w \o <<c>> : c \in BoolStains, w \in words}
        \cup UNION {{[w EXCEPT ![i] = c] : c \in BoolStains} :
                    i \in 1..5, w \in {v \in BoolWords : Len(v) = 5}}
        \cup UNION {{[w EXCEPT ![i] = c] : c \in BoolStains} :
                    i \in 1..4, w \in {v \in BoolWords : Len(v) = 4}}
        \cup UNION {{[w EXCEPT ![i] = c] : c \in BoolStains} :
                    i \in 1..3, w \in {v \in BoolWords : Len(v) = 3}}

\* '\v', for which strings have no escape
VerticalTab == "\\v"

\* isWhitespace taking '\v' for an ordinary character
isWhitespaceNoVerticalTab(c) ==
    c = " " \/ c = "\t" \/ c = "\n" \/ c = "\r" \/ c = "\f"

\* isWhitespace( char )
isWhitespace(c) ==
    c = " " \/ c = "\t" \/ c = "\n" \/ c = "\r" \/ c = "\f" \/ c = VerticalTab

\* while ( start < str.size() && isWhitespace( str[start] ) ) ++start;
RECURSIVE TrimStartLoop(_, _)
TrimStartLoop(s, start) ==
    IF start < Len(s) /\ isWhitespace(s[start + 1])
    THEN TrimStartLoop(s, start + 1)
    ELSE start

\* trimStart( std::string_view )
trimStart(s) == Substr(s, TrimStartLoop(s, 0), npos)

\* while ( end > 0 && isWhitespace( str[end - 1] ) ) --end;
RECURSIVE TrimEndLoop(_, _)
TrimEndLoop(s, end) ==
    IF end > 0 /\ isWhitespace(s[end])
    THEN TrimEndLoop(s, end - 1)
    ELSE end

\* trimEnd( std::string_view )
trimEnd(s) == Substr(s, 0, TrimEndLoop(s, Len(s)))

\* trim( std::string_view )
trim(s) == trimEnd(trimStart(s))

\* longest middle part of an input of the trimming functions
MaxCoreLen == 3

CoreAlphabet == {"a", " ", VerticalTab}

\* the runs of whitespace put around the middle part
Pads ==
    {<<>>, <<" ">>, <<"\t", "\n">>, <<"\r", "\f", VerticalTab>>,
     <<VerticalTab, " ">>}

TrimInputs ==
    {l \o m \o r : l \in Pads, r \in Pads,
                   m \in UNION {[1..n -> CoreAlphabet] : n \in 0..MaxCoreLen}}

\* what a scan hands back: its verdict and the positions it indexed str at
Scanned(val, reads) == [val |-> val, reads |-> reads]

\* the locals of isValidHostname's loop; `returned` once a return was taken
HostLocals(labelLength, prevWasDot, reads) ==
    [returned |-> FALSE, labelLength |-> labelLength, prevWasDot |-> prevWasDot,
     reads |-> reads]

\* return false inside the loop of isValidHostname
HostReject(reads) ==
    [returned |-> TRUE, labelLength |-> 0, prevWasDot |-> FALSE, reads |-> reads]

\* the loop body of isValidHostname without the test of the byte before a '.'
HostStepHyphenBeforeDot(s, st, i) ==
    IF st.returned THEN st
    ELSE LET c == s[i + 1]
             r == st.reads \cup {i}
         IN  IF c = "."
             THEN IF st.prevWasDot \/ st.labelLength = 0
                  THEN HostReject(r)
                  ELSE HostLocals(0, TRUE, r)
             ELSE IF isAlphaNumeric(c) \/ c = "-"
             THEN IF st.prevWasDot /\ c = "-"
                  THEN HostReject(r)
                  ELSE IF st.labelLength + 1 > 63
                  THEN HostReject(r)
                  ELSE HostLocals(st.labelLength + 1, FALSE, r)
             ELSE HostReject(r)

\* the loop body of isValidHostname reading str[i - 1] as soon as it meets a '.'
HostStepEagerLookBack(s, st, i) ==
    IF st.returned THEN st
    ELSE LET c == s[i + 1]
             r == st.reads \cup {i}
         IN  IF c = "."
             THEN IF st.prevWasDot \/ st.labelLength = 0
                  THEN HostReject(r \cup {i - 1})
                  ELSE IF s[i] = "-"
                  THEN HostReject(r \cup {i - 1})
                  ELSE HostLocals(0, TRUE, r \cup {i - 1})
             ELSE IF isAlphaNumeric(c) \/ c = "-"
             THEN IF st.prevWasDot /\ c = "-"
                  THEN HostReject(r)
                  ELSE IF st.labelLength + 1 > 63
                  THEN HostReject(r)
                  ELSE HostLocals(st.labelLength + 1, FALSE, r)
             ELSE HostReject(r)

\* the loop body of isValidHostname at position i; the byte at position k of
\* str is s[k + 1], so str[i - 1] is s[i]
HostStep(s, st, i) ==
    IF st.returned THEN st
    ELSE LET c == s[i + 1]
             r == st.reads \cup {i}
         IN  IF c = "."
             THEN IF st.prevWasDot \/ st.labelLength = 0
                  THEN HostReject(r)
                  ELSE IF s[i] = "-"
                  THEN HostReject(r \cup {i - 1})
                  ELSE HostLocals(0, TRUE, r \cup {i - 1})
             ELSE IF isAlphaNumeric(c) \/ c = "-"
             THEN IF st.prevWasDot /\ c = "-"
                  THEN HostReject(r)
                  ELSE IF st.labelLength + 1 > 63
                  THEN HostReject(r)
                  ELSE HostLocals(st.labelLength + 1, FALSE, r)
             ELSE HostReject(r)

\* the iterations lo <= i < hi of isValidHostname's loop, in order, stopping
\* at a return; the range is halved so that 253 iterations nest 8 deep
RECURSIVE HostLoop(_, _, _, _)
HostLoop(s, st, lo, hi) ==
    IF hi <= lo THEN st
    ELSE IF hi = lo + 1 THEN HostStep(s, st, lo)
    ELSE LET mid  == (lo + hi) \div 2
             half == HostLoop(s, st, lo, mid)
         IN  IF half.returned THEN half ELSE HostLoop(s, half, mid, hi)

\* the loop of isValidHostname and the test after it
HostScan(s) ==
    LET st == HostLoop(s, HostLocals(0, TRUE, {}), 0, Len(s))
    IN  IF st.returned
        THEN Scanned(FALSE, st.reads)
        ELSE IF ~st.prevWasDot /\ st.labelLength > 0
        THEN Scanned(s[Len(s)] # "-", st.reads \cup {Len(s) - 1})
        ELSE Scanned(FALSE, st.reads)

\* isValidHostname( std::string_view ), with the positions it reads
HostnameScanned(s) ==
    IF Len(s) = 0 \/ Len(s) > 253
    THEN Scanned(FALSE, {})
    ELSE HostScan(s)

\* isValidHostname( std::string_view )
isValidHostname(s) == HostnameScanned(s).val

\* isDomainName without its search for a '.'
isDomainNameAnyHostname(s) == isValidHostname(s)

\* isDomainName( std::string_view )
isDomainName(s) ==
    IF ~isValidHostname(s)
    THEN FALSE
    ELSE Find(s, ".", 0) # npos

\* the loop of isValidPort( std::string_view ) without its test against 65535
RECURSIVE PortScanNoRangeTest(_, _, _)
PortScanNoRangeTest(s, i, portValue) ==
    IF i >= Len(s)
    THEN TRUE
    ELSE IF ~isDigit(s[i + 1])
    THEN FALSE
    ELSE PortScanNoRangeTest(s, i + 1, portValue * 10 + DigitVal(s[i + 1]))

\* the loop of isValidPort( std::string_view ) from position i on
RECURSIVE PortScan(_, _, _)
PortScan(s, i, portValue) ==
    IF i >= Len(s)
    THEN TRUE
    ELSE IF ~isDigit(s[i + 1])
    THEN FALSE
    ELSE LET v == portValue * 10 + DigitVal(s[i + 1])
         IN  IF v > 65535 THEN FALSE ELSE PortScan(s, i + 1, v)

\* isValidPort( std::string_view )
isValidPort(s) ==
    IF Len(s) = 0 \/ Len(s) > 5
    THEN FALSE
    ELSE PortScan(s, 0, 0)

\* static_cast<uint16_t>( value )
ToUInt16(v) == v % 65536

\* the integral isValidPort judging its argument after a cast to uint16_t
isValidPortNarrowed(n) == ToUInt16(n.value) >= 0 /\ ToUInt16(n.value) <= 65535

\* isValidPort( T port ): 0 and 65535 are ints, and the comparison is made in
\* the common type of T and int, which holds 0, 65535 and every value of T
\* as they are
isValidPortT(n) == n.value >= 0 /\ n.value <= 65535

\* isIPv6Address counting the digits before the first '.' as one more group
isIPv6AddressTailRecount(s) ==
    IF Len(s) = 0 \/ Len(s) > 45
    THEN FALSE
    ELSE LET r == V6Scan(s, 0, 0, 0, FALSE, FALSE, 0)
             groupCount == IF r.digitCount > 0
                           THEN r.groupCount + 1
                           ELSE r.groupCount
         IN  /\ ~r.rejected
             /\ \/ groupCount = 8 /\ ~r.hasDoubleColon
                \/ groupCount < 8 /\ r.hasDoubleColon

\* isIPv6Address taking any count of at most 8 groups, "::" or not
isIPv6AddressAnyGroupCount(s) ==
    IF Len(s) = 0 \/ Len(s) > 45
    THEN FALSE
    ELSE LET r == V6Scan(s, 0, 0, 0, FALSE, FALSE, 0)
             groupCount == IF r.digitCount > 0 /\ Find(s, ".", 0) = npos
                           THEN r.groupCount + 1
                           ELSE r.groupCount
         IN  ~r.rejected /\ groupCount <= 8

\* isIPv6Address( std::string_view )
isIPv6Address(s) ==
    IF Len(s) = 0 \/ Len(s) > 45
    THEN FALSE
    ELSE LET r == V6Scan(s, 0, 0, 0, FALSE, FALSE, 0)
             groupCount == IF r.digitCount > 0 /\ Find(s, ".", 0) = npos
                           THEN r.groupCount + 1
                           ELSE r.groupCount
         IN  /\ ~r.rejected
             /\ \/ groupCount = 8 /\ ~r.hasDoubleColon
                \/ groupCount < 8 /\ r.hasDoubleColon

\* s.rfind(ch)
RFind(s, ch) ==
    IF \E i \in 0..(Len(s) - 1) : s[i + 1] = ch
    THEN CHOOSE i \in 0..(Len(s) - 1) :
             /\ s[i + 1] = ch
             /\ \A j \in (i + 1)..(Len(s) - 1) : s[j + 1] # ch
    ELSE npos

\* the number the digits of s write, as the scan of std::from_chars adds it up
RECURSIVE FromChars(_, _, _)
FromChars(s, i, value) ==
    IF i >= Len(s) THEN value
    ELSE FromChars(s, i + 1, value * 10 + DigitVal(s[i + 1]))

\* tryParseUInt( str, result ) on the strings tryParseEndpoint hands it, which
\* isValidPort has accepted: `ok` is the return value
tryParseUInt(s) ==
    IF Len(s) = 0
    THEN [ok |-> FALSE, result |-> 0]
    ELSE IF \A i \in 1..Len(s) : isDigit(s[i])
    THEN [ok |-> TRUE, result |-> FromChars(s, 0, 0)]
    ELSE [ok |-> FALSE, result |-> 0]

\* std::all_of( host, isDigit( c ) || c == '.' ) taken to be false always
LooksLikeIPv4Never(h) == FALSE

\* std::all_of( host.begin(), host.end(), isDigit( c ) || c == '.' )
LooksLikeIPv4(h) == \A i \in 1..Len(h) : isDigit(h[i]) \/ h[i] = "."

\* tryParseEndpoint at a return: the value returned, the caller's host and
\* port as the call leaves them, where in endpoint the view host begins, the
\* positions endpoint was indexed at and the positions substr was given
Returned(val, h, hostAt, p, reads, subs) ==
    [val |-> val, host |-> h, hostAt |-> hostAt, port |-> p,
     reads |-> reads, subs |-> subs]

\* the [host]:port branch accepting any byte after the ']'
ParseBracketedAnySeparator(endpoint, host0, port0) ==
    LET closingBracket == Find(endpoint, "]", 0)
        h       == Substr(endpoint, 1, SizeSub(closingBracket, 1))
        portStr == Substr(endpoint, closingBracket + 2, npos)
        parsed  == tryParseUInt(portStr)
        subs    == {1, closingBracket + 2}
    IN  IF closingBracket = npos
        THEN Returned(FALSE, host0, 0, port0, {0}, {})
        ELSE IF closingBracket + 1 < Len(endpoint)
        THEN IF ~isValidPort(portStr)
             THEN Returned(FALSE, h, 1, port0, {0}, subs)
             ELSE IF ~parsed.ok \/ parsed.result > 65535
             THEN Returned(FALSE, h, 1, port0, {0}, subs)
             ELSE Returned(isIPv6Address(h), h, 1, ToUInt16(parsed.result),
                           {0}, subs)
        ELSE Returned(FALSE, h, 1, port0, {0}, {1})

\* tryParseEndpoint, the branch taken when endpoint[0] == '['
ParseBracketed(endpoint, host0, port0) ==
    LET closingBracket == Find(endpoint, "]", 0)
        h       == Substr(endpoint, 1, SizeSub(closingBracket, 1))
        portStr == Substr(endpoint, closingBracket + 2, npos)
        parsed  == tryParseUInt(portStr)
        reads   == {0, closingBracket + 1}
        subs    == {1, closingBracket + 2}
    IN  IF closingBracket = npos
        THEN Returned(FALSE, host0, 0, port0, {0}, {})
        ELSE IF closingBracket + 1 < Len(endpoint)
        THEN IF endpoint[closingBracket + 2] # ":"
             THEN Returned(FALSE, h, 1, port0, reads, {1})
             ELSE IF ~isValidPort(portStr)
             THEN Returned(FALSE, h, 1, port0, reads, subs)
             ELSE IF ~parsed.ok \/ parsed.result > 65535
             THEN Returned(FALSE, h, 1, port0, reads, subs)
             ELSE Returned(isIPv6Address(h), h, 1, ToUInt16(parsed.result),
                           reads, subs)
        ELSE Returned(FALSE, h, 1, port0, {0}, {1})

\* the host:port branch taking an IPv6 address for a host as well
ParsePlainAnyAddress(endpoint, host0, port0) ==
    LET colonPos == RFind(endpoint, ":")
        h        == Substr(endpoint, 0, colonPos)
        portStr  == Substr(endpoint, colonPos + 1, npos)
        parsed   == tryParseUInt(portStr)
        subs     == {0, colonPos + 1}
    IN  IF colonPos = npos
        THEN Returned(FALSE, host0, 0, port0, {0}, {})
        ELSE IF Len(h) = 0 \/ Len(portStr) = 0
        THEN Returned(FALSE, h, 0, port0, {0}, subs)
        ELSE IF ~isValidPort(portStr)
        THEN Returned(FALSE, h, 0, port0, {0}, subs)
        ELSE IF ~parsed.ok \/ parsed.result > 65535
        THEN Returned(FALSE, h, 0, port0, {0}, subs)
        ELSE Returned(IF LooksLikeIPv4(h) THEN isIPv4Address(h)
                      ELSE isValidHostname(h) \/ isIPv6Address(h),
                      h, 0, ToUInt16(parsed.result), {0}, subs)

\* tryParseEndpoint, the host:port branch
ParsePlain(endpoint, host0, port0) ==
    LET colonPos == RFind(endpoint, ":")
        h        == Substr(endpoint, 0, colonPos)
        portStr  == Substr(endpoint, colonPos + 1, npos)
        parsed   == tryParseUInt(portStr)
        subs     == {0, colonPos + 1}
    IN  IF colonPos = npos
        THEN Returned(FALSE, host0, 0, port0, {0}, {})
        ELSE IF Len(h) = 0 \/ Len(portStr) = 0
        THEN Returned(FALSE, h, 0, port0, {0}, subs)
        ELSE IF ~isValidPort(portStr)
        THEN Returned(FALSE, h, 0, port0, {0}, subs)
        ELSE IF ~parsed.ok \/ parsed.result > 65535
        THEN Returned(FALSE, h, 0, port0, {0}, subs)
        ELSE Returned(IF LooksLikeIPv4(h) THEN isIPv4Address(h)
                                          ELSE isValidHostname(h),
                      h, 0, ToUInt16(parsed.result), {0}, subs)

\* tryParseEndpoint( endpoint, host, port ), host0 and port0 being what the
\* caller's host and port hold when the call is made
tryParseEndpoint(endpoint, host0, port0) ==
    IF Len(endpoint) = 0
    THEN Returned(FALSE, host0, 0, port0, {}, {})
    ELSE IF endpoint[1] = "["
    THEN ParseBracketed(endpoint, host0, port0)
    ELSE ParsePlain(endpoint, host0, port0)

(***************************************************************************)
(* The clients: each runs the loop `for (segment : splitter)`, that is     *)
(* begin(), then test against end(), dereference, increment; a client may  *)
(* call begin() again at any time, and may go on incrementing a cursor     *)
(* that has reached end().                                                 *)
(***************************************************************************)
\* no validator is called while the Splitter is iterated
\* std::string_view host; uint16_t port = 0; and the int 0 in hand
OutputsFresh ==
    /\ num = [type |-> "int", value |-> 0]
    /\ host = <<>>
    /\ port = 0

NetIdle ==
    /\ str = <<>>
    /\ zone = <<>>
    /\ OutputsFresh
    /\ done = {}

Init ==
    /\ m_str \in Strings(SplitAlphabet, MaxLen)
    /\ m_delimiter \in Delims
    /\ cur = [c \in Cursors |-> DefaultIterator]
    /\ pc = [c \in Cursors |-> "idle"]
    /\ out = [c \in Cursors |-> <<>>]
    /\ incs = [c \in Cursors |-> 0]
    /\ NetIdle

\* begin() that resumes where another cursor of the Splitter stands
BeginResumed(c) ==
    /\ cur' = [cur EXCEPT ![c] =
                 IF \E k \in Cursors \ {c} : pc[k] \in {"test", "body", "inc", "done"}
                 THEN cur[CHOOSE k \in Cursors \ {c} : pc[k] \in {"test", "body", "inc", "done"}]
                 ELSE SplitterBegin]
    /\ pc' = [pc EXCEPT ![c] = "test"]
    /\ out' = [out EXCEPT ![c] = <<>>]
    /\ incs' = [incs EXCEPT ![c] = 0]
    /\ UNCHANGED <<m_str, m_delimiter>>
    /\ UNCHANGED netVars

\* it = splitter.begin()
Begin(c) ==
    /\ cur' = [cur EXCEPT ![c] = SplitterBegin]
    /\ pc' = [pc EXCEPT ![c] = "test"]
    /\ out' = [out EXCEPT ![c] = <<>>]
    /\ incs' = [incs EXCEPT ![c] = 0]
    /\ UNCHANGED <<m_str, m_delimiter>>
    /\ UNCHANGED netVars

\* it != splitter.end()
Test(c) ==
    /\ pc[c] = "test"
    /\ pc' = [pc EXCEPT ![c] = IF OpNe(cur[c], SplitterEnd) THEN "body" ELSE "done"]
    /\ UNCHANGED <<m_str, m_delimiter, cur, out, incs>>
    /\ UNCHANGED netVars

\* segment = *it, with an operator* that moves the cursor on as it reads
DerefAdvancing(c) ==
    /\ pc[c] = "body"
    /\ Len(out[c]) < MaxYield
    /\ out' = [out EXCEPT ![c] = Append(@, OpDeref(cur[c]))]
    /\ cur' = [cur EXCEPT ![c] = OpInc(@)]
    /\ pc' = [pc EXCEPT ![c] = "inc"]
    /\ UNCHANGED <<m_str, m_delimiter, incs>>
    /\ UNCHANGED netVars

\* segment = *it
Deref(c) ==
    /\ pc[c] = "body"
    /\ Len(out[c]) < MaxYield
    /\ out' = [out EXCEPT ![c] = Append(@, OpDeref(cur[c]))]
    /\ pc' = [pc EXCEPT ![c] = "inc"]
    /\ UNCHANGED <<m_str, m_delimiter, cur, incs>>
    /\ UNCHANGED netVars

\* it = splitter.end()
TakeEnd(c) ==
    /\ cur' = [cur EXCEPT ![c] = SplitterEnd]
    /\ pc' = [pc EXCEPT ![c] = "sentinel"]
    /\ out' = [out EXCEPT ![c] = <<>>]
    /\ incs' = [incs EXCEPT ![c] = 0]
    /\ UNCHANGED <<m_str, m_delimiter>>
    /\ UNCHANGED netVars

\* ++it when the position moved belongs to the Splitter, not to the cursor
IncrementShared(c) ==
    /\ pc[c] \in {"inc", "done", "sentinel"}
    /\ cur' = [k \in Cursors |-> OpInc(cur[c])]
    /\ incs' = [incs EXCEPT ![c] = IF pc[c] = "inc" THEN @ + 1 ELSE @]
    /\ pc' = [pc EXCEPT ![c] = IF pc[c] = "inc" THEN "test" ELSE @]
    /\ UNCHANGED <<m_str, m_delimiter, out>>
    /\ UNCHANGED netVars

\* ++it, as the loop's step or on a cursor that already equals end()
Increment(c) ==
    /\ pc[c] \in {"inc", "done", "sentinel"}
    /\ cur' = [cur EXCEPT ![c] = OpInc(@)]
    /\ incs' = [incs EXCEPT ![c] = IF pc[c] = "inc" THEN @ + 1 ELSE @]
    /\ pc' = [pc EXCEPT ![c] = IF pc[c] = "inc" THEN "test" ELSE @]
    /\ UNCHANGED <<m_str, m_delimiter, out>>
    /\ UNCHANGED netVars

Next ==
    \E c \in Cursors :
        \/ Begin(c)
        \/ TakeEnd(c)
        \/ Test(c)
        \/ Deref(c)
        \/ Increment(c)

Spec == Init /\ [][Next]_vars

(***************************************************************************)
(* One loop per client, run to its end: begin() is called once and the     *)
(* thread that runs the loop keeps running it.                             *)
(***************************************************************************)
BeginOnce(c) ==
    /\ pc[c] = "idle"
    /\ Begin(c)

Loop(c) == Test(c) \/ Deref(c) \/ Increment(c)

NextLive ==
    \E c \in Cursors :
        \/ BeginOnce(c)
        \/ Test(c)
        \/ Deref(c)
        \/ Increment(c)

SpecLive == Init /\ [][NextLive]_vars /\ \A c \in Cursors : WF_vars(Loop(c))

(***************************************************************************)
(* Callers of the validators: a caller holds one string and calls the      *)
(* validators on it; each call is recorded with its argument and verdict.  *)
(***************************************************************************)
\* no Splitter is iterated while the validators are called
SplitterIdle ==
    /\ m_str = <<>>
    /\ m_delimiter = ","
    /\ cur = [c \in Cursors |-> DefaultIterator]
    /\ pc = [c \in Cursors |-> "idle"]
    /\ out = [c \in Cursors |-> <<>>]
    /\ incs = [c \in Cursors |-> 0]

Called(fn, arg) == \E r \in done : r.fn = fn /\ r.arg = arg

InitV4 ==
    /\ SplitterIdle
    /\ str \in V4Inputs
    /\ zone = <<>>
    /\ OutputsFresh
    /\ done = {}

InitV6 ==
    /\ SplitterIdle
    /\ str \in V6Inputs
    /\ zone \in Zones
    /\ OutputsFresh
    /\ done = {}

\* isIPv4Address( str )
CallIsIPv4Address ==
    /\ ~Called("isIPv4Address", str)
    /\ done' = done \cup {[fn |-> "isIPv4Address", arg |-> str,
                           val |-> isIPv4Address(str)]}
    /\ UNCHANGED <<str, zone, num, host, port>>
    /\ UNCHANGED splitVars

\* isIPv6Address( str )
CallIsIPv6Address ==
    /\ ~Called("isIPv6Address", str)
    /\ done' = done \cup {[fn |-> "isIPv6Address", arg |-> str,
                           val |-> isIPv6Address(str)]}
    /\ UNCHANGED <<str, zone, num, host, port>>
    /\ UNCHANGED splitVars

\* str + "%" + zone
Zoned == str \o <<"%">> \o zone

\* isIPv6Address( str + "%" + zone )
CallIsIPv6AddressZoned ==
    /\ ~Called("isIPv6Address", Zoned)
    /\ done' = done \cup {[fn |-> "isIPv6Address", arg |-> Zoned,
                           val |-> isIPv6Address(Zoned)]}
    /\ UNCHANGED <<str, zone, num, host, port>>
    /\ UNCHANGED splitVars

InitHost ==
    /\ SplitterIdle
    /\ str \in HostInputs
    /\ zone = <<>>
    /\ OutputsFresh
    /\ done = {}

\* isValidHostname( str )
CallIsValidHostname ==
    /\ ~Called("isValidHostname", str)
    /\ done' = done \cup {[fn |-> "isValidHostname", arg |-> str,
                           val |-> isValidHostname(str)]}
    /\ UNCHANGED <<str, zone, num, host, port>>
    /\ UNCHANGED splitVars

\* isDomainName( str )
CallIsDomainName ==
    /\ ~Called("isDomainName", str)
    /\ done' = done \cup {[fn |-> "isDomainName", arg |-> str,
                           val |-> isDomainName(str)]}
    /\ UNCHANGED <<str, zone, num, host, port>>
    /\ UNCHANGED splitVars

NextHost ==
    \/ CallIsValidHostname
    \/ CallIsDomainName

SpecHost == InitHost /\ [][NextHost]_vars

InitPort ==
    /\ SplitterIdle
    /\ zone = <<>>
    /\ host = <<>>
    /\ port = 0
    /\ \/ str \in PortInputs /\ num = [type |-> "int", value |-> 0]
       \/ str = <<>> /\ num \in {n \in PortNumbers : Typed(n)}
    /\ done = {}

\* isValidPort( str )
CallIsValidPort ==
    /\ ~Called("isValidPort", str)
    /\ done' = done \cup {[fn |-> "isValidPort", arg |-> str,
                           val |-> isValidPort(str)]}
    /\ UNCHANGED <<str, zone, num, host, port>>
    /\ UNCHANGED splitVars

\* isValidPort( num ), num of an integral type
CallIsValidPortT ==
    /\ ~Called("isValidPort<T>", num)
    /\ done' = done \cup {[fn |-> "isValidPort<T>", arg |-> num,
                           val |-> isValidPortT(num)]}
    /\ UNCHANGED <<str, zone, num, host, port>>
    /\ UNCHANGED splitVars

NextPort ==
    \/ CallIsValidPort
    \/ CallIsValidPortT

SpecPort == InitPort /\ [][NextPort]_vars

InitEndpoint ==
    /\ SplitterIdle
    /\ str \in EndpointInputs
    /\ zone = <<>>
    /\ OutputsFresh
    /\ done = {}

\* tryParseEndpoint( str, host, port )
CallTryParseEndpoint ==
    /\ ~Called("tryParseEndpoint", str)
    /\ LET r == tryParseEndpoint(str, host, port)
       IN  /\ host' = r.host
           /\ port' = r.port
           /\ done' = done \cup {[fn |-> "tryParseEndpoint", arg |-> str,
                                  val |-> r.val, hostAt |-> r.hostAt,
                                  host0 |-> host, port0 |-> port]}
    /\ UNCHANGED <<str, zone, num>>
    /\ UNCHANGED splitVars

NextEndpoint == CallTryParseEndpoint

SpecEndpoint == InitEndpoint /\ [][NextEndpoint]_vars

\* one program iterates a Splitter, another calls one validator on a string
InitAccess ==
    \/ Init
    \/ /\ SplitterIdle
       /\ str \in AccessInputs
       /\ zone = <<>>
       /\ OutputsFresh
       /\ done = {}

IterateSplitter ==
    /\ NetIdle
    /\ Next

CallValidator ==
    /\ SplitterIdle
    /\ done = {}
    /\ \/ CallIsIPv4Address
       \/ CallIsIPv6Address
       \/ CallIsValidHostname
       \/ CallIsValidPort
       \/ CallTryParseEndpoint

NextAccess ==
    \/ IterateSplitter
    \/ CallValidator

SpecAccess == InitAccess /\ [][NextAccess]_vars

InitV6Tail ==
    /\ SplitterIdle
    /\ str \in TailInputs
    /\ zone = <<>>
    /\ OutputsFresh
    /\ done = {}

NextV6Tail == CallIsIPv6Address

SpecV6Tail == InitV6Tail /\ [][NextV6Tail]_vars

NextV4 == CallIsIPv4Address

SpecV4 == InitV4 /\ [][NextV4]_vars

InitBool ==
    /\ SplitterIdle
    /\ str \in BoolInputs
    /\ zone = <<>>
    /\ OutputsFresh
    /\ done = {}

\* bool result{ prior }; tryParseBool( str, result )
CallTryParseBool ==
    \E prior \in BOOLEAN :
        /\ ~\E r \in done : r.fn = "tryParseBool" /\ r.prior = prior
        /\ LET p == tryParseBool(str, prior)
           IN  done' = done \cup {[fn |-> "tryParseBool", arg |-> str,
                                   prior |-> prior, val |-> p.val,
                                   result |-> p.result]}
        /\ UNCHANGED <<str, zone, num, host, port>>
        /\ UNCHANGED splitVars

NextBool == CallTryParseBool

SpecBool == InitBool /\ [][NextBool]_vars

InitTrim ==
    /\ SplitterIdle
    /\ str \in TrimInputs
    /\ zone = <<>>
    /\ OutputsFresh
    /\ done = {}

\* what fn has returned for str
ResultsOf(fn) == {r.val : r \in {q \in done : q.fn = fn /\ q.arg = str}}

\* trimStart( str ), trimStart( trimEnd( str ) )
CallTrimStart ==
    \E a \in {str} \cup ResultsOf("trimEnd") :
        /\ ~Called("trimStart", a)
        /\ done' = done \cup {[fn |-> "trimStart", arg |-> a,
                               val |-> trimStart(a)]}
        /\ UNCHANGED <<str, zone, num, host, port>>
        /\ UNCHANGED splitVars

\* trimEnd( str ), trimEnd( trimStart( str ) )
CallTrimEnd ==
    \E a \in {str} \cup ResultsOf("trimStart") :
        /\ ~Called("trimEnd", a)
        /\ done' = done \cup {[fn |-> "trimEnd", arg |-> a,
                               val |-> trimEnd(a)]}
        /\ UNCHANGED <<str, zone, num, host, port>>
        /\ UNCHANGED splitVars

\* trim( str ), trim( trim( str ) )
CallTrim ==
    \E a \in {str} \cup ResultsOf("trim") :
        /\ ~Called("trim", a)
        /\ done' = done \cup {[fn |-> "trim", arg |-> a, val |-> trim(a)]}
        /\ UNCHANGED <<str, zone, num, host, port>>
        /\ UNCHANGED splitVars

NextTrim ==
    \/ CallTrimStart
    \/ CallTrimEnd
    \/ CallTrim

SpecTrim == InitTrim /\ [][NextTrim]_vars

InitBoth ==
    /\ SplitterIdle
    /\ str \in BothInputs
    /\ zone = <<>>
    /\ OutputsFresh
    /\ done = {}

NextBoth ==
    \/ CallIsIPv4Address
    \/ CallIsIPv6Address

SpecBoth == InitBoth /\ [][NextBoth]_vars

InitV6Zones ==
    /\ SplitterIdle
    /\ str \in V6Inputs
    /\ zone = <<>>
    /\ OutputsFresh
    /\ done = {}

\* isIPv6Address( str + "%" + z ) for a zone ID z
CallIsIPv6AddressWithZone ==
    \E z \in Zones :
        LET arg == str \o <<"%">> \o z
        IN  /\ ~Called("isIPv6Address", arg)
            /\ done' = done \cup {[fn |-> "isIPv6Address", arg |-> arg,
                                   val |-> isIPv6Address(arg)]}
            /\ UNCHANGED <<str, zone, num, host, port>>
            /\ UNCHANGED splitVars

NextV6Zones == CallIsIPv6AddressWithZone

SpecV6Zones == InitV6Zones /\ [][NextV6Zones]_vars

NextV6 ==
    \/ CallIsIPv6Address
    \/ CallIsIPv6AddressZoned

SpecV6 == InitV6 /\ [][NextV6]_vars

(***************************************************************************)
(* Reference notions the properties are stated with                        *)
(***************************************************************************)
\* number of occurrences of byte d in s
Count(s, d) == Cardinality({i \in 1..Len(s) : s[i] = d})

IsPrefix(a, b) == Len(a) <= Len(b) /\ SubSeq(b, 1, Len(a)) = a

\* the segments one cursor yields from `it` on, with nothing else running
RECURSIVE RunAlone(_)
RunAlone(it) ==
    IF it.m_isAtEnd THEN <<>> ELSE <<OpDeref(it)>> \o RunAlone(OpInc(it))

\* the cursor after n increments of `it`, with nothing else running
RECURSIVE Advance(_, _)
Advance(it, n) == IF n = 0 THEN it ELSE Advance(OpInc(it), n - 1)

\* what belongs to client c
Own(c) == <<cur[c], pc[c], out[c], incs[c]>>

(***************************************************************************)
(* Splitter properties                                                     *)
(***************************************************************************)
\* C1: a finished loop over a non-empty input has yielded exactly
\* count(s, d) + 1 segments; without a delimiter in it, the input itself.
C1_SegmentCount ==
    \A c \in Cursors :
        (pc[c] = "done" /\ Len(m_str) > 0) =>
            /\ Len(out[c]) = Count(m_str, m_delimiter) + 1
            /\ Count(m_str, m_delimiter) = 0 => out[c] = <<m_str>>

\* a finished loop over ",a,," : leading, consecutive and trailing delimiters
C1_Witness ==
    \E c \in Cursors :
        /\ pc[c] = "done"
        /\ m_delimiter = ","
        /\ m_str = <<",", "a", ",", ",">>
        /\ out[c] = << <<>>, <<"a">>, <<>>, <<>> >>

\* C2: for the empty input begin() equals end() and no segment is yielded.
C2_EmptyInput ==
    Len(m_str) = 0 =>
        /\ OpEq(SplitterBegin, SplitterEnd)
        /\ \A c \in Cursors : pc[c] # "body" /\ out[c] = <<>>

\* a loop over the empty input that has ended
C2_Witness ==
    /\ Len(m_str) = 0
    /\ \E c \in Cursors : pc[c] = "done" /\ incs[c] = 0

\* C3: the segments of a finished loop, joined with the delimiter, are the
\* input.
C3_RoundTrip ==
    \A c \in Cursors :
        pc[c] = "done" => Join(out[c], m_delimiter) = m_str

\* a finished loop over "a,,a"
C3_Witness ==
    \E c \in Cursors :
        /\ pc[c] = "done"
        /\ m_delimiter = ","
        /\ m_str = <<"a", ",", ",", "a">>
        /\ out[c] = << <<"a">>, <<>>, <<"a">> >>

\* C4: two cursors of the Splitter compare equal exactly when both are
\* exhausted or both stand on the same segment boundaries.
C4_CursorEquality ==
    \A c, k \in Cursors :
        (pc[c] # "idle" /\ pc[k] # "idle") =>
            (OpEq(cur[c], cur[k]) <=>
                \/ cur[c].m_isAtEnd /\ cur[k].m_isAtEnd
                \/ /\ ~cur[c].m_isAtEnd /\ ~cur[k].m_isAtEnd
                   /\ cur[c].m_start = cur[k].m_start
                   /\ cur[c].m_end = cur[k].m_end)

\* C5: a cursor fresh from begin() stands on the first segment whatever the
\* other cursors have done, and any two cursors yield the same sequence.
C5_Restartable ==
    \A c \in Cursors :
        /\ (pc[c] = "test" /\ incs[c] = 0) =>
               /\ cur[c].m_start = 0
               /\ cur[c].m_isAtEnd = (Len(m_str) = 0)
        /\ \A k \in Cursors :
               /\ IsPrefix(out[c], out[k]) \/ IsPrefix(out[k], out[c])
               /\ (pc[c] = "done" /\ pc[k] = "done") => out[c] = out[k]

\* a cursor that has just read its first segment while another is exhausted
C5_Witness ==
    \E c, k \in Cursors :
        /\ pc[c] = "done"
        /\ Len(out[c]) >= 2
        /\ pc[k] = "inc"
        /\ incs[k] = 0
        /\ Len(out[k]) = 1

\* C6: a loop started at begin() reaches end(), after at most
\* length(s) + 1 increments.
C6_Terminates ==
    /\ [](\A c \in Cursors : incs[c] <= Len(m_str) + 1)
    /\ \A c \in Cursors :
           (pc[c] = "test" /\ incs[c] = 0)
               ~> (pc[c] = "done" /\ OpEq(cur[c], SplitterEnd))

\* a loop that needed all of its length(s) + 1 increments
C6_Witness ==
    \E c \in Cursors :
        /\ pc[c] = "done"
        /\ Len(m_str) >= 2
        /\ incs[c] = Len(m_str) + 1

\* C7: under any interleaving each cursor yields what it yields alone, and a
\* step changes the state of one cursor only.
C7_Independent ==
    /\ [](\A c \in Cursors :
             pc[c] \in {"test", "body", "inc", "done"} =>
                 /\ IsPrefix(out[c], RunAlone(SplitterBegin))
                 /\ pc[c] = "done" => out[c] = RunAlone(SplitterBegin)
                 /\ pc[c] # "done" => cur[c] = Advance(SplitterBegin, incs[c]))
    /\ [][\A c, k \in Cursors :
             (c # k /\ Own(c)' # Own(c)) => Own(k)' = Own(k)]_vars

\* two cursors in mid-iteration on different segments
C7_Witness ==
    \E c, k \in Cursors :
        /\ pc[c] = "inc" /\ Len(out[c]) = 3
        /\ pc[k] = "body" /\ Len(out[k]) = 1
        /\ cur[c].m_start # cur[k].m_start

(***************************************************************************)
(* Reference grammars of the address validators                            *)
(***************************************************************************)
Occurs(s, ch) == \E i \in 1..Len(s) : s[i] = ch

\* the pieces of s between the occurrences of ch
RECURSIVE Pieces(_, _)
Pieces(s, ch) ==
    IF ~Occurs(s, ch) THEN <<s>>
    ELSE LET p == CHOOSE i \in 1..Len(s) :
                      s[i] = ch /\ \A j \in 1..(i - 1) : s[j] # ch
         IN  <<SubSeq(s, 1, p - 1)>> \o Pieces(SubSeq(s, p + 1, Len(s)), ch)

\* the number a string of decimal digits writes
RECURSIVE Decimal(_)
Decimal(g) ==
    IF Len(g) = 0 THEN 0
    ELSE 10 * Decimal(SubSeq(g, 1, Len(g) - 1)) + DigitVal(g[Len(g)])

\* a decimal group of an IPv4 address: 1 to 3 digits, no leading zero, 0..255
IsOctetText(g) ==
    /\ Len(g) \in 1..3
    /\ \A i \in 1..Len(g) : isDigit(g[i])
    /\ Len(g) > 1 => g[1] # "0"
    /\ Decimal(g) <= 255

\* four decimal groups separated by three dots
IsDottedQuad(s) ==
    LET g == Pieces(s, ".")
    IN  Len(g) = 4 /\ \A i \in 1..4 : IsOctetText(g[i])

\* a group of an IPv6 address: 1 to 4 hex digits
IsHexGroup(g) ==
    /\ Len(g) \in 1..4
    /\ \A i \in 1..Len(g) : isHexDigit(g[i])

\* nothing, or hex groups with one colon between consecutive ones
IsGroupList(s) ==
    LET g == Pieces(s, ":")
    IN  Len(s) = 0 \/ \A i \in 1..Len(g) : IsHexGroup(g[i])

NumGroups(s) == IF Len(s) = 0 THEN 0 ELSE Len(Pieces(s, ":"))

\* where a ':' is followed by a ':'
DoubleColons(s) == {i \in 1..(Len(s) - 1) : s[i] = ":" /\ s[i + 1] = ":"}

\* groups separated by colons with at most one "::": 8 groups without it,
\* fewer than 8 with it
IsColonHex(s) ==
    LET dc    == DoubleColons(s)
        at    == CHOOSE i \in dc : TRUE
        left  == SubSeq(s, 1, at - 1)
        right == SubSeq(s, at + 2, Len(s))
    IN  IF dc = {}
        THEN Len(s) > 0 /\ IsGroupList(s) /\ NumGroups(s) = 8
        ELSE /\ Cardinality(dc) = 1
             /\ IsGroupList(left)
             /\ IsGroupList(right)
             /\ NumGroups(left) + NumGroups(right) < 8

(***************************************************************************)
(* Address validator properties                                            *)
(***************************************************************************)
\* C8: isIPv4Address accepts exactly the strings made of four decimal groups
\* separated by three dots, each of 1 to 3 digits, at most 255 and without a
\* leading zero.
C8_IPv4Grammar ==
    \A r \in done :
        r.fn = "isIPv4Address" => (r.val <=> IsDottedQuad(r.arg))

\* isIPv4Address has accepted "255.0.0.255"
C8_Witness ==
    \E r \in done :
        /\ r.fn = "isIPv4Address"
        /\ r.arg = <<"2", "5", "5", ".", "0", ".", "0", ".", "2", "5", "5">>
        /\ r.val

\* C9: on a string of length 1..45 without '%' and '.', isIPv6Address accepts
\* exactly the colon-separated hex groups with at most one "::", 8 groups
\* without it and fewer than 8 with it; a lone ':' at either end is rejected.
C9_IPv6Grammar ==
    \A r \in done :
        (/\ r.fn = "isIPv6Address"
         /\ Len(r.arg) \in 1..45
         /\ ~Occurs(r.arg, "%")
         /\ ~Occurs(r.arg, "."))
            => (r.val <=> IsColonHex(r.arg))

\* C10: appending "%" and a zone ID to a string without '%' leaves the
\* verdict of isIPv6Address as it was.
C10_ZoneKeepsVerdict ==
    \A r, z \in done :
        (/\ r.fn = "isIPv6Address" /\ r.arg = str
         /\ z.fn = "isIPv6Address" /\ z.arg = Zoned
         /\ Len(Zoned) <= 45)
            => z.val = r.val

\* the position of the last ch of s, 0 when s has none (1-based)
LastAt(s, ch) ==
    IF Occurs(s, ch)
    THEN CHOOSE i \in 1..Len(s) : s[i] = ch /\ \A j \in (i + 1)..Len(s) : s[j] # ch
    ELSE 0

\* s up to and including its last ':', and what follows it
PrefixOf(s) == SubSeq(s, 1, LastAt(s, ":"))
TailOf(s) == SubSeq(s, LastAt(s, ":") + 1, Len(s))

\* nothing, or hex groups each followed by a ':'
IsColonTerminated(p) ==
    Len(p) = 0 \/ (p[Len(p)] = ":" /\ Len(p) > 1 /\ IsGroupList(SubSeq(p, 1, Len(p) - 1)))

\* hex groups each followed by a ':', with at most one "::" among them
IsTailPrefix(p) ==
    LET dc    == DoubleColons(p)
        at    == CHOOSE i \in dc : TRUE
        left  == SubSeq(p, 1, at - 1)
        right == SubSeq(p, at + 2, Len(p))
    IN  IF dc = {}
        THEN IsColonTerminated(p)
        ELSE /\ Cardinality(dc) = 1
             /\ IsGroupList(left)
             /\ IsColonTerminated(right)

\* the groups of a prefix: one per ':' that follows a hex digit
PrefixGroups(p) == Cardinality({i \in 2..Len(p) : p[i] = ":" /\ p[i - 1] # ":"})

\* C11: for a prefix of g hex groups each followed by a colon, with at most
\* one "::", and a tail without ':' and '%' that contains a '.',
\* isIPv6Address accepts prefix + tail exactly when isIPv4Address accepts the
\* tail and g + 2 is 8 without "::" or less than 8 with it.
C11_EmbeddedTail ==
    \A r \in done :
        LET p == PrefixOf(r.arg)
            v == TailOf(r.arg)
            g == PrefixGroups(p)
        IN  (/\ r.fn = "isIPv6Address"
             /\ IsTailPrefix(p)
             /\ Occurs(v, ".")
             /\ ~Occurs(v, "%"))
                => (r.val <=> /\ isIPv4Address(v)
                              /\ \/ g + 2 = 8 /\ DoubleColons(p) = {}
                                 \/ g + 2 < 8 /\ DoubleColons(p) # {})

\* isIPv6Address has accepted six groups followed by "1.1.1.1"
C11_Witness ==
    \E r \in done :
        /\ r.fn = "isIPv6Address"
        /\ r.arg = <<"1", ":", "1", ":", "1", ":", "1", ":", "1", ":", "1", ":",
                     "1", ".", "1", ".", "1", ".", "1">>
        /\ r.val

(***************************************************************************)
(* Hostname and port properties                                            *)
(***************************************************************************)
\* 1 to 63 ASCII letters, digits and hyphens, no hyphen first or last
IsLabel(l) ==
    /\ Len(l) \in 1..63
    /\ \A i \in 1..Len(l) :
          \/ l[i] \in LowerCase \cup UpperCase \cup {"-"}
          \/ \E v \in 1..10 : DecimalDigits[v] = l[i]
    /\ l[1] # "-"
    /\ l[Len(l)] # "-"

\* labels separated by dots, 1 to 253 characters in all
IsHostname(s) ==
    LET l == Pieces(s, ".")
    IN  Len(s) \in 1..253 /\ \A i \in 1..Len(l) : IsLabel(l[i])

\* C12: isValidHostname accepts exactly the strings of length 1..253 that are
\* dot-separated labels of 1..63 letters, digits and hyphens, none starting
\* or ending with a hyphen.
C12_HostnameGrammar ==
    \A r \in done :
        r.fn = "isValidHostname" => (r.val <=> IsHostname(r.arg))

\* isValidHostname has accepted four labels of 63, 63, 63 and 61 letters: 253
\* bytes
C12_Witness ==
    \E r \in done :
        /\ r.fn = "isValidHostname"
        /\ r.arg = Join(<<LabelOf(63), LabelOf(63), LabelOf(63), LabelOf(61)>>, ".")
        /\ r.val

IsPortText(s) ==
    /\ Len(s) \in 1..5
    /\ \A i \in 1..Len(s) : isDigit(s[i])
    /\ Decimal(s) <= 65535

\* C14: the string isValidPort accepts exactly the strings of 1 to 5 decimal
\* digits whose value is at most 65535, leading zeros included.
C14_PortText ==
    \A r \in done :
        r.fn = "isValidPort" => (r.val <=> IsPortText(r.arg))

\* isValidPort has accepted "00065" and "65535"
C14_Witness ==
    \E r \in done :
        /\ r.fn = "isValidPort"
        /\ r.arg \in {<<"0", "0", "0", "6", "5">>, <<"6", "5", "5", "3", "5">>}
        /\ r.val

OnlyDigitsAndDots(h) ==
    \A i \in 1..Len(h) : h[i] \in {"0", "1", "2", "3", "4", "5", "6", "7", "8", "9", "."}

StartsWithBracket(e) == IF Len(e) = 0 THEN FALSE ELSE e[1] = "["

\* the position of the first ch of s, 0 when s has none (1-based)
FirstAt(s, ch) ==
    IF Occurs(s, ch)
    THEN CHOOSE i \in 1..Len(s) : s[i] = ch /\ \A j \in 1..(i - 1) : s[j] # ch
    ELSE 0

\* C16: an endpoint that does not start with '[' parses exactly when it has
\* a ':', the text h before the last ':' and the text p after it are not
\* empty, p is a port, and h is an IPv4 address if made of digits and dots
\* only and a hostname otherwise; then host is h, at the start of the
\* endpoint, and port is the value of p.
C16_PlainForm ==
    \A r \in done :
        (r.fn = "tryParseEndpoint" /\ ~StartsWithBracket(r.arg)) =>
            LET k == LastAt(r.arg, ":")
                h == SubSeq(r.arg, 1, k - 1)
                p == SubSeq(r.arg, k + 1, Len(r.arg))
            IN  /\ r.val <=> /\ k # 0
                             /\ Len(h) > 0
                             /\ IsPortText(p)
                             /\ IF OnlyDigitsAndDots(h)
                                THEN IsDottedQuad(h)
                                ELSE IsHostname(h)
                /\ r.val => (host = h /\ r.hostAt = 0 /\ port = Decimal(p))

\* "1.1.1.1:65535" has parsed to 1.1.1.1 and 65535
C16_Witness ==
    \E r \in done :
        /\ r.fn = "tryParseEndpoint"
        /\ r.arg = <<"1", ".", "1", ".", "1", ".", "1", ":", "6", "5", "5", "3", "5">>
        /\ r.val
        /\ host = <<"1", ".", "1", ".", "1", ".", "1">>
        /\ port = 65535

\* C17: an endpoint that starts with '[' parses exactly when it has a ']',
\* the byte right after the first ']' is ':', the text after that ':' is a
\* port and the text between the brackets passes isIPv6Address; then host is
\* the text between the brackets and port is the value of the port text.
C17_BracketedForm ==
    \A r \in done :
        (r.fn = "tryParseEndpoint" /\ StartsWithBracket(r.arg)) =>
            LET j == FirstAt(r.arg, "]")
                a == SubSeq(r.arg, 2, j - 1)
                p == SubSeq(r.arg, j + 2, Len(r.arg))
            IN  /\ r.val <=> /\ j # 0
                             /\ j < Len(r.arg)
                             /\ r.arg[j + 1] = ":"
                             /\ IsPortText(p)
                             /\ isIPv6Address(a)
                /\ r.val => (host = a /\ r.hostAt = 1 /\ port = Decimal(p))

\* "[::1%e]:80" has parsed to ::1%e and 80
C17_Witness ==
    \E r \in done :
        /\ r.fn = "tryParseEndpoint"
        /\ r.arg = <<"[", ":", ":", "1", "%", "e", "]", ":", "8", "0">>
        /\ r.val
        /\ host = <<":", ":", "1", "%", "e">>
        /\ port = 80

\* a number of 0..65535 written in decimal
IsPortWritten(p) == IsPortText(p) /\ (Len(p) > 1 => p[1] # "0")

\* colon-separated hex groups, then nothing or '%' and a zone ID
IsZonedColonHex(a) ==
    LET z == FirstAt(a, "%")
    IN  IF z = 0 THEN IsColonHex(a) ELSE IsColonHex(SubSeq(a, 1, z - 1))

\* C18: h + ":" + n parses to (h, n) for every IPv4 address h and every
\* hostname h not made of digits and dots only, and "[" + a + "]:" + n
\* parses to (a, n) for every IPv6 address a, n being 0..65535 in decimal.
C18_RoundTrip ==
    \A r \in done :
        r.fn = "tryParseEndpoint" =>
            LET e == r.arg
                k == LastAt(e, ":")
                h == SubSeq(e, 1, k - 1)
                a == SubSeq(e, 2, k - 2)
                p == SubSeq(e, k + 1, Len(e))
            IN  /\ (/\ k # 0
                    /\ IsPortWritten(p)
                    /\ \/ IsDottedQuad(h)
                       \/ IsHostname(h) /\ ~OnlyDigitsAndDots(h))
                       => (r.val /\ host = h /\ port = Decimal(p))
                /\ (/\ k > 2
                    /\ IsPortWritten(p)
                    /\ e[1] = "["
                    /\ e[k - 1] = "]"
                    /\ IsZonedColonHex(a))
                       => (r.val /\ host = a /\ port = Decimal(p))

\* C19: when tryParseEndpoint returns false the caller's host and port hold
\* what they held before the call.
C19_NoPartialResult ==
    \A r \in done :
        (r.fn = "tryParseEndpoint" /\ ~r.val)
            => (host = r.host0 /\ port = r.port0)

(***************************************************************************)
(* Accesses                                                                *)
(***************************************************************************)
\* the positions the loop `for i < str.size()` of a validator that takes
\* strings of 1 to `most` bytes can index str at
LoopReads(s, most) ==
    IF Len(s) = 0 \/ Len(s) > most THEN {} ELSE 0..(Len(s) - 1)

\* the position isIPv6Address can give str.substr at the first '.': the one
\* after the last ':' before it
V6Subs(s) ==
    LET d == FirstAt(s, ".")
    IN  IF d = 0 \/ Len(s) > 45 THEN {}
        ELSE {LastAt(SubSeq(s, 1, d - 1), ":")}

\* the positions a call indexes its string at
ReadsOf(r) ==
    IF r.fn = "isValidHostname" THEN HostnameScanned(r.arg).reads
    ELSE IF r.fn = "isValidPort" THEN LoopReads(r.arg, 5)
    ELSE IF r.fn = "isIPv4Address" THEN LoopReads(r.arg, 15)
    ELSE IF r.fn = "isIPv6Address" THEN LoopReads(r.arg, 45)
    ELSE IF r.fn = "tryParseEndpoint"
    THEN tryParseEndpoint(r.arg, r.host0, r.port0).reads
    ELSE {}

\* the positions a call gives substr on its string
SubsOf(r) ==
    IF r.fn = "isIPv6Address" THEN V6Subs(r.arg)
    ELSE IF r.fn = "tryParseEndpoint"
    THEN tryParseEndpoint(r.arg, r.host0, r.port0).subs
    ELSE {}

\* C20: every position a validator indexes its input at is below the
\* input's length and every position it gives substr is at most the length;
\* every segment a cursor that is not at the end yields lies within m_str.
C20_InRange ==
    /\ \A r \in done :
          /\ \A i \in ReadsOf(r) : 0 <= i /\ i < Len(r.arg)
          /\ \A i \in SubsOf(r) : 0 <= i /\ i <= Len(r.arg)
    /\ \A c \in Cursors :
          /\ ~cur[c].m_isAtEnd =>
                /\ cur[c].m_start <= cur[c].m_end
                /\ cur[c].m_end <= Len(m_str)
                /\ OpDeref(cur[c]) # OutOfRange
          /\ \A k \in 1..Len(out[c]) : out[c][k] # OutOfRange

\* isValidHostname has looked back from the '.' of "1.", tryParseEndpoint has
\* taken the empty port of "[]:" at the very end, and a cursor has yielded
\* the empty last segment of an input ending in the delimiter
C20_Witness ==
    \/ \E r \in done :
          /\ r.fn = "isValidHostname"
          /\ r.arg = <<"1", ".">>
          /\ 0 \in ReadsOf(r)
    \/ \E r \in done :
          /\ r.fn = "tryParseEndpoint"
          /\ r.arg = <<"[", "]", ":">>
          /\ 3 \in SubsOf(r)
    \/ \E c \in Cursors :
          /\ pc[c] = "inc"
          /\ cur[c].m_start = Len(m_str)
          /\ Len(m_str) > 0

\* C21: an endpoint that does not start with '[' and has two or more ':'
\* never parses.
C21_ManyColonsFail ==
    \A r \in done :
        (/\ r.fn = "tryParseEndpoint"
         /\ ~StartsWithBracket(r.arg)
         /\ Count(r.arg, ":") >= 2)
            => ~r.val

\* "::1:80" has been rejected
C21_Witness ==
    \E r \in done :
        /\ r.fn = "tryParseEndpoint"
        /\ r.arg = <<":", ":", "1", ":", "8", "0">>
        /\ ~r.val

\* s up to its first '%', all of s when it has none
BeforeZone(s) ==
    IF FirstAt(s, "%") = 0 THEN s ELSE SubSeq(s, 1, FirstAt(s, "%") - 1)

\* C22: isIPv6Address rejects every string with a second "::" before any
\* '%', three colons in a row included.
C22_SecondDoubleColon ==
    \A r \in done :
        (/\ r.fn = "isIPv6Address"
         /\ Cardinality(DoubleColons(BeforeZone(r.arg))) >= 2)
            => ~r.val

\* isIPv6Address has rejected "1::1::1", with or without a zone ID
C22_Witness ==
    \E r \in done :
        /\ r.fn = "isIPv6Address"
        /\ BeforeZone(r.arg) = <<"1", ":", ":", "1", ":", ":", "1">>
        /\ ~r.val

\* C23: two calls of isIPv6Address on the same address part followed by '%'
\* and a zone ID give the same verdict, whatever the two zone IDs are.
C23_ZoneContentIgnored ==
    \A r1, r2 \in done :
        (/\ r1.fn = "isIPv6Address" /\ r2.fn = "isIPv6Address"
         /\ Occurs(r1.arg, "%") /\ Occurs(r2.arg, "%")
         /\ BeforeZone(r1.arg) = BeforeZone(r2.arg)
         /\ Len(r1.arg) <= 45 /\ Len(r2.arg) <= 45)
            => r1.val = r2.val

(***************************************************************************)
(* Cursor invariants                                                       *)
(***************************************************************************)
\* C24: a cursor that is not at the end has 0 <= start <= end <= length, no
\* delimiter in [start, end), end at the length or at a delimiter, start at
\* 0 or right after a delimiter, and its dereference is that range of m_str.
C24_CursorRange ==
    \A c \in Cursors :
        LET it == cur[c]
        IN  ~it.m_isAtEnd =>
                /\ 0 <= it.m_start
                /\ it.m_start <= it.m_end
                /\ it.m_end <= Len(m_str)
                /\ \A i \in (it.m_start + 1)..it.m_end : m_str[i] # m_delimiter
                /\ it.m_end = Len(m_str) \/ m_str[it.m_end + 1] = m_delimiter
                /\ it.m_start = 0 \/ m_str[it.m_start] = m_delimiter
                /\ OpDeref(it) = SubSeq(m_str, it.m_start + 1, it.m_end)

\* a cursor has read a non-empty segment with a delimiter on either side
C24_Witness ==
    \E c \in Cursors :
        /\ pc[c] = "inc"
        /\ ~cur[c].m_isAtEnd
        /\ 0 < cur[c].m_start
        /\ cur[c].m_start < cur[c].m_end
        /\ cur[c].m_end < Len(m_str)

\* C25: an increment of a cursor that equals end() leaves it equal to end().
C25_ExhaustionAbsorbing ==
    [][\A c \in Cursors :
           (OpEq(cur[c], SplitterEnd) /\ Increment(c))
               => OpEq(cur'[c], SplitterEnd)]_vars

\* the end() of a non-empty input has been incremented and still equals end()
C25_Witness ==
    \E c \in Cursors :
        /\ pc[c] = "sentinel"
        /\ Len(m_str) > 0
        /\ cur[c].m_start > 0
        /\ OpEq(cur[c], SplitterEnd)

\* C26: no step changes m_str or m_delimiter, and a dereference leaves the
\* cursor it reads as it was.
C26_SplitterImmutable ==
    /\ [][m_str' = m_str /\ m_delimiter' = m_delimiter]_vars
    /\ [][\A c \in Cursors :
             (pc[c] = "body" /\ pc'[c] = "inc") => cur'[c] = cur[c]]_vars

\* a cursor has been dereferenced, incremented and dereferenced again
C26_Witness ==
    \E c \in Cursors :
        /\ pc[c] = "inc"
        /\ incs[c] >= 1
        /\ Len(out[c]) >= 2

\* C27: no string is accepted by both isIPv4Address and isIPv6Address.
C27_Exclusive ==
    \A r4, r6 \in done :
        (/\ r4.fn = "isIPv4Address" /\ r6.fn = "isIPv6Address"
         /\ r4.arg = r6.arg)
            => ~(r4.val /\ r6.val)

\* "255.1.1.255" has been accepted by isIPv4Address and rejected by
\* isIPv6Address
C27_Witness ==
    \E r4, r6 \in done :
        /\ r4.fn = "isIPv4Address" /\ r6.fn = "isIPv6Address"
        /\ r4.arg = <<"2", "5", "5", ".", "1", ".", "1", ".", "2", "5", "5">>
        /\ r6.arg = r4.arg
        /\ r4.val /\ ~r6.val

(* Boolean parsing *)

\* s and w are equal up to the case of their letters
SameIgnoringCase(s, w) ==
    /\ Len(s) = Len(w)
    /\ \A i \in 1..Len(s) : s[i] = w[i] \/ s[i] = toUpper(w[i])

TrueWords ==
    {<<"1">>, <<"t">>, <<"y">>, <<"o", "n">>, <<"y", "e", "s">>,
     <<"t", "r", "u", "e">>}
FalseWords ==
    {<<"0">>, <<"f">>, <<"n">>, <<"n", "o">>, <<"o", "f", "f">>,
     <<"f", "a", "l", "s", "e">>}

\* C28: tryParseBool succeeds with true exactly on the texts equal, up to
\* case, to 1, t, y, on, yes, true, succeeds with false exactly on those
\* equal to 0, f, n, no, off, false, and fails on every other text.
C28_BoolGrammar ==
    \A r \in done :
        r.fn = "tryParseBool" =>
            LET t == \E w \in TrueWords : SameIgnoringCase(r.arg, w)
                f == \E w \in FalseWords : SameIgnoringCase(r.arg, w)
            IN  /\ r.val <=> (t \/ f)
                /\ t => r.result
                /\ f => ~r.result

\* "tRuE" has parsed as true over a false `result`
C28_Witness ==
    \E r \in done :
        /\ r.fn = "tryParseBool" /\ r.arg = <<"t", "R", "u", "E">>
        /\ ~r.prior /\ r.val /\ r.result

\* C29: after a call of tryParseBool that returned false, `result` is false.
C29_ResultCleared ==
    \A r \in done : (r.fn = "tryParseBool" /\ ~r.val) => ~r.result

(* Trimming *)

Whitespace == {" ", "\t", "\n", "\r", "\f", VerticalTab}

\* bytes first..last of s (positions from 1), a range that neither starts nor
\* ends with whitespace; first = last + 1 is the empty range
IsCleanRange(s, first, last) ==
    /\ 1 <= first /\ first <= last + 1 /\ last <= Len(s)
    /\ first <= last => (s[first] \notin Whitespace /\ s[last] \notin Whitespace)

\* v is a longest clean range of s
IsLongestCleanRange(s, v) ==
    /\ \E first \in 1..(Len(s) + 1), last \in 0..Len(s) :
            IsCleanRange(s, first, last) /\ v = SubSeq(s, first, last)
    /\ \A first \in 1..(Len(s) + 1), last \in 0..Len(s) :
            IsCleanRange(s, first, last) => last - first + 1 <= Len(v)

\* C30: trim(s) is the longest sub-range of s that neither starts nor ends
\* with whitespace, equals trimEnd after trimStart and trimStart after trimEnd,
\* and trimming a trimmed string changes nothing.
C30_Trim ==
    \A t \in done :
        t.fn = "trim" =>
            /\ IsLongestCleanRange(t.arg, t.val)
            /\ \A a, b \in done :
                    (/\ a.fn = "trimStart" /\ a.arg = t.arg
                     /\ b.fn = "trimEnd" /\ b.arg = a.val) => b.val = t.val
            /\ \A a, b \in done :
                    (/\ a.fn = "trimEnd" /\ a.arg = t.arg
                     /\ b.fn = "trimStart" /\ b.arg = a.val) => b.val = t.val
            /\ \A u \in done :
                    (u.fn = "trim" /\ u.arg = t.val) => u.val = t.val

\* "\t\na a\r\f\v" has been trimmed to "a a", in one call, in two calls in
\* both orders, and trimmed again
C30_Witness ==
    LET s == <<"\t", "\n", "a", " ", "a", "\r", "\f", VerticalTab>>
        v == <<"a", " ", "a">>
    IN  /\ str = s
        /\ \E t, u \in done :
                /\ t.fn = "trim" /\ t.arg = s /\ t.val = v
                /\ u.fn = "trim" /\ u.arg = v /\ u.val = v
        /\ \E a, b \in done :
                /\ a.fn = "trimStart" /\ a.arg = s
                /\ b.fn = "trimEnd" /\ b.arg = a.val /\ b.arg # s /\ b.val = v
        /\ \E a, b \in done :
                /\ a.fn = "trimEnd" /\ a.arg = s
                /\ b.fn = "trimStart" /\ b.arg = a.val /\ b.arg # s /\ b.val = v

====
